---------------------------- MODULE Spec2Model ----------------------------
(***************************************************************************)
(* KlioPipeline (klio_exec/commands/run.py): assembly of the per-element   *)
(* routing / merge / acknowledgment topology of a klio job, and the        *)
(* execution of that topology, one stage application at a time, by the     *)
(* engine.                                                                 *)
(*                                                                         *)
(* The topology is built by operators that mirror the methods of           *)
(* KlioPipeline one for one (SetupDataIoFilters, FilterIntendedRecipients, *)
(* GeneratePcoll, GeneratePcollPerInput, SetupPipeline).  A topology is a  *)
(* set of stages; a stage reads a set of PCollections and writes tagged    *)
(* output PCollections.  A PCollection read by several stages delivers     *)
(* every element to each of them (Beam semantics): the engine keeps one    *)
(* pending work item per (element, consuming stage).                       *)
(***************************************************************************)
EXTENDS Naturals, Integers, Sequences, FiniteSets, TLC

\* ------------------------------------------------------------------ bounds
MaxEventInputs == 2
MaxEventOutputs == 2
MaxDataInputs == 2
MaxDataOutputs == 2
NumElements == 1

VARIABLES
  config,        \* self.config: the job configuration (immutable)
  runtime_conf,  \* self.runtime_conf: [update, direct_runner]
  pc,            \* position of run()
  depth,         \* number of run() frames entered (1, or 2 after the retry)
  graph,         \* the topology wired on the current beam.Pipeline
  run_calls,     \* how often the run callable (business transform) was invoked
  engine_starts, \* how often pipeline.run() was called
  pending,       \* engine: work items <<element, stage key>> not yet executed
  log            \* per element: the stage applications it went through

vars == <<config, runtime_conf, pc, depth, graph, run_calls, engine_starts,
          pending, log>>

Elements == 1 .. NumElements

DIRECT_GKE_RUNNER == "DirectGKERunner"
DATAFLOW_RUNNER == "DataflowRunner"

\* ----------------------------------------------------------- configuration
\* Sequences of flags of length 0..max.  Only entry [1] of the event outputs,
\* data inputs and data outputs is ever read by the code (outputs[0],
\* inputs[0]); the unread entries carry FALSE.
FlagSeqsFirst(max) ==
  { <<>> } \cup
  { [i \in 1 .. n |-> IF i = 1 THEN b ELSE FALSE] : n \in 1 .. max, b \in BOOLEAN }

FlagSeqsAll(max) == UNION { [1 .. n -> BOOLEAN] : n \in 0 .. max }

Configs ==
  [ runner : {DIRECT_GKE_RUNNER, DATAFLOW_RUNNER},
    events_inputs : FlagSeqsAll(MaxEventInputs),      \* skip_klio_read
    events_outputs : FlagSeqsFirst(MaxEventOutputs),  \* skip_klio_write
    data_inputs : FlagSeqsFirst(MaxDataInputs),       \* skip_klio_existence_check
    data_outputs : FlagSeqsFirst(MaxDataOutputs),     \* skip_klio_existence_check
    force : BOOLEAN ]

_has_event_inputs(c) == Len(c.events_inputs) > 0
_has_multi_event_inputs(c) == Len(c.events_inputs) > 1
_has_event_outputs(c) == Len(c.events_outputs) > 0
_has_data_inputs(c) == Len(c.data_inputs) > 0
_has_multi_data_inputs(c) == Len(c.data_inputs) > 1
_has_data_outputs(c) == Len(c.data_outputs) > 0
_has_multi_data_outputs(c) == Len(c.data_outputs) > 1

\* self.config.pipeline_options.runner == "DirectGKERunner"
IsDirectGKE(c) == c.runner = DIRECT_GKE_RUNNER

\* ---------------------------------------------------------------- topology
None == <<"None">>
Pipeline == <<"pipeline">>

\* The PCollection a stage writes on one of its output tags.
Out(pfx, label, tag) == <<pfx, label, tag>>

Stage(pfx, label, kind, inp) ==
  [pfx |-> pfx, label |-> label, kind |-> kind, inp |-> inp]

\* `if x:` on a value that is None or a PCollection
Truthy(p) == p # None

\* label_prefix=None
NoPrefix == 0

\* Every method that wires stages is modelled by the set of stages it adds
\* (named after the method) and by the PCollections it returns.

\* to_drop_flatten = (v1_to_process.drop, v2_to_process.drop)
to_drop_flatten(pfx) ==
  { Out(pfx, "Should Process v1 Message", "drop"),
    Out(pfx, "Should Process v2 Message", "drop") }

\* a wrong branch of the v2 check flattened into the process stream
to_process_flatten_WrongTag(pfx) ==
  { Out(pfx, "Should Process v1 Message", "process"),
    Out(pfx, "Should Process v2 Message", "drop") }

\* to_process_flatten = (v1_to_process.process, v2_to_process.process)
to_process_flatten(pfx) ==
  { Out(pfx, "Should Process v1 Message", "process"),
    Out(pfx, "Should Process v2 Message", "process") }

\* to_drop, the flattened drop branches of the two recipient checks
to_drop(pfx) == Out(pfx, "Flatten to Drop Messages to Ignore", "out")

\* _filter_intended_recipients(in_pcol, label_pfx): the stages it wires
FilterIntendedRecipients(c, in_pcol, pfx) ==
  { Stage(pfx, "Tag Message Versions", "_KlioTagMessageVersion", {in_pcol}),
    Stage(pfx, "Should Process v1 Message", "_KlioV1CheckRecipients",
          {Out(pfx, "Tag Message Versions", "v1")}),
    Stage(pfx, "Should Process v2 Message", "KlioCheckRecipients",
          {Out(pfx, "Tag Message Versions", "v2")}),
    Stage(pfx, "Flatten to Drop Messages to Ignore", "Flatten", to_drop_flatten(pfx)),
    Stage(pfx, "Drop Messages to Ignore", "KlioDrop", {to_drop(pfx)}),
    Stage(pfx, "Flatten to Process Intended Messages", "Flatten", to_process_flatten(pfx)) }
  \cup
  ( IF IsDirectGKE(c)
    THEN {Stage(pfx, "Ack Dropped Input Message", "KlioAckInputMessage", {to_drop(pfx)})}
    ELSE {} )

\* _filter_intended_recipients: the to_process it returns
intended_msgs(pfx) == Out(pfx, "Flatten to Process Intended Messages", "out")

\* _update_audit_log(in_pcol, label_pfx): the stage it wires
UpdateAuditLog(in_pcol, pfx) ==
  { Stage(pfx, "Updating KlioMessage Audit Log", "KlioUpdateAuditLog", {in_pcol}) }

\* the raw input handed to the gates in place of the audit stage's output
audit_logged_msgs_Raw(pfx) == Out(pfx, "Read Event Input", "out")

\* _update_audit_log: the PCollection it returns
audit_logged_msgs(pfx) == Out(pfx, "Updating KlioMessage Audit Log", "out")

\* The conditions of _setup_data_io_filters that decide which gates are wired.
MultiDataExits(c) == _has_multi_data_inputs(c) \/ _has_multi_data_outputs(c)

PingFilterWired(c) == _has_data_inputs(c)

\* the sink's skip_klio_existence_check not looked at
OutputGateWired_IgnoresSkip(c) == _has_data_outputs(c)

OutputGateWired(c) ==
  _has_data_outputs(c) /\ ~c.data_outputs[1]

\* the source's skip_klio_existence_check not looked at
InputGateWired_IgnoresSkip(c) == _has_data_inputs(c)

InputGateWired(c) ==
  _has_data_inputs(c) /\ ~c.data_inputs[1]

\* _setup_data_io_filters: its local to_process_output
to_process_output(c, in_pcol, pfx) ==
  IF PingFilterWired(c) THEN Out(pfx, "Ping Filter", "process") ELSE in_pcol

\* the ping filter's process branch taken for its pass_thru branch
pass_thru_Process(c, pfx) ==
  IF PingFilterWired(c) THEN Out(pfx, "Ping Filter", "process") ELSE None

\* _setup_data_io_filters: its local pass_thru
pass_thru(c, pfx) ==
  IF PingFilterWired(c) THEN Out(pfx, "Ping Filter", "pass_thru") ELSE None

\* the found branch of the output check flattened into the pass-through
\* stream in place of the force filter's pass_thru branch
to_pass_thru_tuple_Found(c, pfx) ==
  { pass_thru(c, pfx), Out(pfx, "Output Exists Filter", "found") }

\* to_pass_thru_tuple = (pass_thru, output_force.pass_thru)
to_pass_thru_tuple(c, pfx) ==
  { pass_thru(c, pfx), Out(pfx, "Output Force Filter", "pass_thru") }

\* the force filter's process branch left out of the stream to process
to_filter_input_tuple_NoForce(pfx) ==
  { Out(pfx, "Output Exists Filter", "not_found") }

\* to_filter_input_tuple = (output_exists.not_found, output_force.process)
to_filter_input_tuple(pfx) ==
  { Out(pfx, "Output Exists Filter", "not_found"),
    Out(pfx, "Output Force Filter", "process") }

\* _setup_data_io_filters: its local to_filter_input
to_filter_input(c, in_pcol, pfx) ==
  IF OutputGateWired(c)
  THEN Out(pfx, "Flatten to Process", "out")
  ELSE to_process_output(c, in_pcol, pfx)

\* the ping filter's pass_thru returned whether or not the output gate is wired
DataIoToPassThru_PingOnly(c, pfx) == pass_thru(c, pfx)

\* _setup_data_io_filters: the to_pass_thru it returns
DataIoToPassThru(c, pfx) ==
  IF OutputGateWired(c)
  THEN Out(pfx, "Flatten to Pass Thru", "out")
  ELSE pass_thru(c, pfx)

\* the stream that enters the input-existence gate returned as to_process
DataIoToProcess_BeforeGate(c, in_pcol, pfx) == to_filter_input(c, in_pcol, pfx)

\* _setup_data_io_filters: the to_process it returns
DataIoToProcess(c, in_pcol, pfx) ==
  IF InputGateWired(c)
  THEN Out(pfx, "Input Exists Filter", "found")
  ELSE to_filter_input(c, in_pcol, pfx)

\* input_exists.not_found
input_not_found(pfx) == Out(pfx, "Input Exists Filter", "not_found")

\* _setup_data_io_filters(in_pcol, label_prefix): the stages it wires
SetupDataIoFilters(c, in_pcol, pfx) ==
  ( IF PingFilterWired(c)
    THEN {Stage(pfx, "Ping Filter", "KlioFilterPing", {in_pcol})}
    ELSE {} )
  \cup
  ( IF OutputGateWired(c)
    THEN { Stage(pfx, "Output Exists Filter", "KlioGcsCheckOutputExists",
                 {to_process_output(c, in_pcol, pfx)}),
           Stage(pfx, "Output Force Filter", "KlioFilterForce",
                 {Out(pfx, "Output Exists Filter", "found")}),
           Stage(pfx, "Flatten to Pass Thru", "Flatten", to_pass_thru_tuple(c, pfx)),
           Stage(pfx, "Flatten to Process", "Flatten", to_filter_input_tuple(pfx)) }
    ELSE {} )
  \cup
  ( IF InputGateWired(c)
    THEN { Stage(pfx, "Input Exists Filter", "KlioGcsCheckInputExists",
                 {to_filter_input(c, in_pcol, pfx)}),
           Stage(pfx, "Drop Not Found Data", "KlioDrop", {input_not_found(pfx)}) }
         \cup
         ( IF IsDirectGKE(c)
           THEN {Stage(pfx, "Ack Input Message from No Data Input Found",
                       "KlioAckInputMessage", {input_not_found(pfx)})}
           ELSE {} )
    ELSE {} )

\* _generate_pcoll(pipeline, input_config, label_prefix), skip_read being
\* input_config.skip_klio_read: whether it raises SystemExit(1)
GeneratePcollExits(c, skip_read) == ~skip_read /\ MultiDataExits(c)

\* the chain wired whatever skip_klio_read says
GeneratePcoll_AlwaysReads(c, skip_read, pfx) ==
  {Stage(pfx, "Read Event Input", "KlioRead", {Pipeline})}
  \cup FilterIntendedRecipients(c, Out(pfx, "Read Event Input", "out"), pfx)
  \cup UpdateAuditLog(intended_msgs(pfx), pfx)
  \cup SetupDataIoFilters(c, audit_logged_msgs(pfx), pfx)

\* _generate_pcoll: the stages it wires
GeneratePcoll(c, skip_read, pfx) ==
  IF skip_read
  THEN {}
  ELSE {Stage(pfx, "Read Event Input", "KlioRead", {Pipeline})}
       \cup FilterIntendedRecipients(c, Out(pfx, "Read Event Input", "out"), pfx)
       \cup UpdateAuditLog(intended_msgs(pfx), pfx)
       \cup SetupDataIoFilters(c, audit_logged_msgs(pfx), pfx)

\* _generate_pcoll: the to_process it returns
GeneratePcollToProcess(c, skip_read, pfx) ==
  IF skip_read THEN Pipeline ELSE DataIoToProcess(c, audit_logged_msgs(pfx), pfx)

\* _generate_pcoll: the to_pass_thru it returns
GeneratePcollToPassThru(c, skip_read, pfx) ==
  IF skip_read THEN None ELSE DataIoToPassThru(c, pfx)

\* the first input's pass-through stream left out of the merge
multi_to_pass_thru_SkipsFirst(c) ==
  { GeneratePcollToPassThru(c, c.events_inputs[i], i) :
      i \in { j \in 2 .. Len(c.events_inputs) :
                Truthy(GeneratePcollToPassThru(c, c.events_inputs[j], j)) } }

\* _generate_pcoll_per_input: multi_to_pass_thru.  The label prefix of input
\* i is its name followed by its index (_generate_input_conf_names),
\* modelled by i.
multi_to_pass_thru(c) ==
  { GeneratePcollToPassThru(c, c.events_inputs[i], i) :
      i \in { j \in 1 .. Len(c.events_inputs) :
                Truthy(GeneratePcollToPassThru(c, c.events_inputs[j], j)) } }

\* _generate_pcoll_per_input(pipeline): the stages it wires
GeneratePcollPerInput(c) ==
  UNION { GeneratePcoll(c, c.events_inputs[i], i) : i \in 1 .. Len(c.events_inputs) }
  \cup {Stage(NoPrefix, "Merge multi-input pass-thrus", "Flatten", multi_to_pass_thru(c))}

\* every entry of the structure is the first input's stream
SetupPipelineToProcess_AllFirst(c) ==
  IF _has_event_inputs(c)
  THEN [i \in 1 .. Len(c.events_inputs) |->
          GeneratePcollToProcess(c, c.events_inputs[1],
                                 IF _has_multi_event_inputs(c) THEN 1 ELSE NoPrefix)]
  ELSE <<Pipeline>>

\* _setup_pipeline: to_process, one entry per event input (a single entry,
\* the pipeline object, when no event input is declared)
SetupPipelineToProcess(c) ==
  IF _has_event_inputs(c)
  THEN IF ~_has_multi_event_inputs(c)
       THEN <<GeneratePcollToProcess(c, c.events_inputs[1], NoPrefix)>>
       ELSE [i \in 1 .. Len(c.events_inputs) |->
               GeneratePcollToProcess(c, c.events_inputs[i], i)]
  ELSE <<Pipeline>>

\* _setup_pipeline: to_pass_thru
SetupPipelineToPassThru(c) ==
  IF _has_event_inputs(c)
  THEN IF ~_has_multi_event_inputs(c)
       THEN GeneratePcollToPassThru(c, c.events_inputs[1], NoPrefix)
       ELSE Out(NoPrefix, "Merge multi-input pass-thrus", "out")
  ELSE None

\* _setup_pipeline: whether the wiring of the inputs raises SystemExit(1)
SetupPipelineExits(c) ==
  \E i \in 1 .. Len(c.events_inputs) : GeneratePcollExits(c, c.events_inputs[i])

\* out_pcol = run_callable(to_process, self.config)
out_pcol == Out(NoPrefix, "run", "out")

\* only the transform's output acknowledged
AckInputMessages_OutputOnly(c, to_pass_thru) ==
  IF IsDirectGKE(c)
  THEN { Stage(NoPrefix, "Ack Input Messages", "KlioAckInputMessage", {out_pcol}) }
  ELSE {}

\* _setup_pipeline, lines 562-573: the acknowledgment of the transform's
\* output and of the pass-through elements
AckInputMessages(c, to_pass_thru) ==
  IF IsDirectGKE(c)
  THEN IF Truthy(to_pass_thru)
       THEN { Stage(NoPrefix, "Flatten to Ack Input Messages", "Flatten",
                    {out_pcol, to_pass_thru}),
              Stage(NoPrefix, "Ack Input Messages", "KlioAckInputMessage",
                    {Out(NoPrefix, "Flatten to Ack Input Messages", "out")}) }
       ELSE { Stage(NoPrefix, "Ack Input Messages", "KlioAckInputMessage", {out_pcol}) }
  ELSE {}

\* the sink's skip_klio_write not looked at
WriteWired_IgnoresSkip(c) == _has_event_outputs(c)

\* the write of lines 575-588 is wired
WriteWired(c) == _has_event_outputs(c) /\ ~c.events_outputs[1]

\* only the transform's output written
WriteEventOutput_OutputOnly(c, to_pass_thru) ==
  IF WriteWired(c)
  THEN { Stage(NoPrefix, "Write Event Output", "KlioWrite", {out_pcol}) }
  ELSE {}

\* _setup_pipeline, lines 575-588: the write to the first event output
WriteEventOutput(c, to_pass_thru) ==
  IF WriteWired(c)
  THEN IF Truthy(to_pass_thru)
       THEN { Stage(NoPrefix, "Flatten to Output", "Flatten", {out_pcol, to_pass_thru}),
              Stage(NoPrefix, "Write Event Output", "KlioWrite",
                    {Out(NoPrefix, "Flatten to Output", "out")}) }
       ELSE { Stage(NoPrefix, "Write Event Output", "KlioWrite", {out_pcol}) }
  ELSE {}

\* the reads of a sequence's entries as a set
Range(f) == { f[i] : i \in 1 .. Len(f) }

\* _setup_pipeline(pipeline), once _get_run_callable() has returned the
\* callable: the stages it wires
SetupPipeline(c) ==
  ( IF _has_event_inputs(c)
    THEN IF ~_has_multi_event_inputs(c)
         THEN GeneratePcoll(c, c.events_inputs[1], NoPrefix)
         ELSE GeneratePcollPerInput(c)
    ELSE {} )
  \cup {Stage(NoPrefix, "run", "run_callable", Range(SetupPipelineToProcess(c)))}
  \cup AckInputMessages(c, SetupPipelineToPassThru(c))
  \cup WriteEventOutput(c, SetupPipelineToPassThru(c))

\* The PCollections whose elements PCollection q carries: q itself and,
\* when q is the output of a Flatten, those its inputs carry.
RECURSIVE Feeders(_, _)
Feeders(stages, q) ==
  {q} \cup
  UNION { UNION { Feeders(stages, p) : p \in f.inp \ {None} } :
            f \in { s \in stages : s.kind = "Flatten" /\ Out(s.pfx, s.label, "out") = q } }

\* the streams _setup_pipeline holds in to_process and to_pass_thru
ReturnedStreams(c) ==
  (Range(SetupPipelineToProcess(c)) \cup {SetupPipelineToPassThru(c)}) \ {None, Pipeline}

\* The topology on a beam.Pipeline: the stages wired, the values of
\* to_process and to_pass_thru, and what each of these streams carries.
Graph(c) ==
  [ stages |-> SetupPipeline(c),
    to_process |-> SetupPipelineToProcess(c),
    to_pass_thru |-> SetupPipelineToPassThru(c),
    feeders |-> [q \in ReturnedStreams(c) |-> Feeders(SetupPipeline(c), q)] ]

EmptyGraph ==
  [stages |-> {}, to_process |-> <<>>, to_pass_thru |-> None, feeders |-> <<>>]

\* A Flatten applied to a tuple one of whose members is None (pass_thru when
\* no data input is declared).
FlattenOverNone(stages) == \E s \in stages : s.kind = "Flatten" /\ None \in s.inp

\* The stages that receive the elements of PCollection p; a Flatten hands
\* the elements of each of its inputs on to the readers of its output.
RECURSIVE Consumers(_, _)
Consumers(stages, p) ==
  UNION { IF s.kind = "Flatten"
          THEN Consumers(stages, Out(s.pfx, s.label, "out"))
          ELSE {s} : s \in {t \in stages : p \in t.inp} }

\* ------------------------------------------------------------- run() inputs
\* pipeline options read by _verify_packaging
PackagingOptions ==
  { po \in [ fnapi_enabled : BOOLEAN, has_setup_file : BOOLEAN,
             setup_file_exists : BOOLEAN, has_reqs_file : BOOLEAN,
             streaming : BOOLEAN ] :
      po.setup_file_exists => po.has_setup_file }

\* _verify_packaging: TRUE when it raises SystemExit(1)
VerifyPackagingExits(po) ==
  \/ po.fnapi_enabled /\ (po.has_setup_file \/ po.has_reqs_file)
  \/ /\ ~po.streaming
     /\ ~(po.fnapi_enabled \/ po.setup_file_exists)
     /\ ~po.has_reqs_file

\* what imp.load_source("run", "./run.py") finds
RunPyStates == {"missing", "no_callable", "run", "run_basic", "both"}

\* _get_run_callable: TRUE when it raises SystemExit(1)
GetRunCallableExits(rp) == rp \in {"missing", "no_callable"}

\* the runner _set_standard_options leaves in the pipeline options the
\* beam.Pipeline is built from: the job executes on it
GKE_DIRECT_RUNNER == "klio_exec.runners.gke_direct.GkeDirectRunner"

_set_standard_options(c, rc) ==
  IF rc.direct_runner
  THEN "direct"
  ELSE IF c.runner = DIRECT_GKE_RUNNER
       THEN GKE_DIRECT_RUNNER
       ELSE c.runner

\* the connector names the event IO mappers know
ConnectorNames == {"pubsub", "file", "bq", "avro"}

\* _generate_input_conf_names, on the names of the declared event inputs:
\* the key of input number index (from 0) is "{}{}".format(ev.name, index)
_generate_input_conf_names(names) ==
  [i \in 1 .. Len(names) |-> names[i] \o ToString(i - 1)]

\* what pipeline.run() does
RunOutcomes == {"ok", "No running job found with name", "other ValueError"}

\* --------------------------------------------------------------------- Init
\* The state after KlioPipeline(job_name, config, runtime_conf), for a job
\* started with the given runtime flags.
InitWith(runtime_confs) ==
  /\ config \in Configs
  /\ runtime_conf \in runtime_confs
  /\ pc = "start"
  /\ depth = 1
  /\ graph = EmptyGraph
  /\ run_calls = 0
  /\ engine_starts = 0
  /\ pending = {}
  /\ log = [e \in Elements |-> <<>>]

\* a job started without --update and without --direct-runner
Init == InitWith({[update |-> FALSE, direct_runner |-> FALSE]})

\* a job started with any runtime flags
InitRun == InitWith([update : BOOLEAN, direct_runner : BOOLEAN])

\* ------------------------------------------------------------ run(): steps
\* run() entered a second time never notices that it is
Reentered_Never(d) == FALSE

\* run() is executing the call `return self.run()` of its ValueError handler:
\* it checks the configuration, the packaging files and run.py that the first
\* call checked and accepted
Reentered(d) == d > 1

\* the update flag left as it was
ClearUpdate_Keeps(rc) == rc

\* self.runtime_conf._replace(update=None)
ClearUpdate(rc) == [rc EXCEPT !.update = FALSE]

\* run(), lines 591-595: _verify_packaging, _get_pipeline_options and the
\* creation of a fresh beam.Pipeline.  The re-entered run() reads the same
\* pipeline options as the first, which passed.
VerifyPackaging ==
  /\ pc = "start"
  /\ \E po \in PackagingOptions :
       /\ Reentered(depth) => ~VerifyPackagingExits(po)
       /\ pc' = IF VerifyPackagingExits(po) THEN "exit" ELSE "pipeline"
  /\ graph' = EmptyGraph
  /\ pending' = {}
  /\ UNCHANGED <<config, runtime_conf, depth, run_calls, engine_starts, log>>

\* run(), line 597: self._setup_pipeline(pipeline)
setup_pipeline ==
  /\ pc = "pipeline"
  /\ \E rp \in RunPyStates :
       /\ Reentered(depth) => ~GetRunCallableExits(rp)
       /\ IF GetRunCallableExits(rp) \/ SetupPipelineExits(config)
          THEN /\ pc' = "exit"
               /\ UNCHANGED <<graph, run_calls>>
          ELSE \/ /\ pc' = "assembled"
                  /\ graph' = Graph(config)
                  /\ run_calls' = run_calls + 1
               \/ /\ FlattenOverNone(SetupPipeline(config))
                  /\ pc' = "raised"
                  /\ UNCHANGED <<graph, run_calls>>
  /\ UNCHANGED <<config, runtime_conf, depth, engine_starts, pending, log>>

\* run(), lines 599-617: pipeline.run() and the handling of its ValueError
pipeline_run ==
  /\ pc = "assembled"
  /\ engine_starts' = engine_starts + 1
  /\ \E outcome \in RunOutcomes :
       IF outcome = "ok"
       THEN /\ pc' = "running"
            /\ UNCHANGED <<runtime_conf, depth>>
       ELSE IF runtime_conf.update /\ outcome = "No running job found with name"
            THEN /\ runtime_conf' = ClearUpdate(runtime_conf)
                 /\ depth' = depth + 1
                 /\ pc' = "start"
            ELSE /\ pc' = "exit"
                 /\ UNCHANGED <<runtime_conf, depth>>
  /\ UNCHANGED <<config, graph, run_calls, pending, log>>

\* ------------------------------------------------------------------- engine
NumInputs == Len(config.events_inputs)

\* the event input an element arrives on (0: no event input is declared)
SourceOf(e) == IF NumInputs = 0 THEN 0 ELSE ((e - 1) % NumInputs) + 1

\* the label prefix of that input's stages
PfxOf(e) == IF NumInputs > 1 THEN SourceOf(e) ELSE NoPrefix

\* the to_process value handed to the run callable for that input
EntryOf(e) == graph.to_process[IF NumInputs = 0 THEN 1 ELSE SourceOf(e)]

Entered(e) == log[e] # <<>>

\* a work item: element e is to be handled by stage s
Item(e, s) == [e |-> e, kind |-> s.kind, pfx |-> s.pfx, label |-> s.label]

Deliver(e, p) == { Item(e, s) : s \in Consumers(graph.stages, p) }

Items(kind) == { it \in pending : it.kind = kind }

\* A log entry: the stage applied and the branch taken.  The log does not
\* keep an element's protocol version: the v1 and the v2 recipient check are
\* both logged as the recipient check.
Entry(kind, label, tag) ==
  IF kind \in {"_KlioV1CheckRecipients", "KlioCheckRecipients"}
  THEN [kind |-> "KlioCheckRecipients", label |-> "Should Process Message", tag |-> tag]
  ELSE [kind |-> kind, label |-> label, tag |-> tag]

\* One execution of work item `it`: the stage is applied and the element is
\* emitted on the output tags `outs`.
Apply(it, tag, outs) ==
  /\ pending' = (pending \ {it})
                  \cup UNION { Deliver(it.e, Out(it.pfx, it.label, t)) : t \in outs }
  /\ log' = [log EXCEPT ![it.e] = Append(@, Entry(it.kind, it.label, tag))]
  /\ UNCHANGED <<config, runtime_conf, pc, depth, graph, run_calls, engine_starts>>

\* the event read transform yields an element of its source
KlioRead ==
  /\ pc = "running"
  /\ \E e \in Elements :
       /\ ~Entered(e)
       /\ EntryOf(e) # Pipeline
       /\ pending' = pending \cup Deliver(e, Out(PfxOf(e), "Read Event Input", "out"))
       /\ log' = [log EXCEPT ![e] = Append(@, Entry("KlioRead", "Read Event Input", "out"))]
  /\ UNCHANGED <<config, runtime_conf, pc, depth, graph, run_calls, engine_starts>>

KlioTagMessageVersion ==
  /\ pc = "running"
  /\ \E it \in Items("_KlioTagMessageVersion"), v \in {"v1", "v2"} :
       Apply(it, "tagged", {v})

KlioV1CheckRecipients ==
  /\ pc = "running"
  /\ \E it \in Items("_KlioV1CheckRecipients"), t \in {"process", "drop"} :
       Apply(it, t, {t})

KlioCheckRecipients ==
  /\ pc = "running"
  /\ \E it \in Items("KlioCheckRecipients"), t \in {"process", "drop"} :
       Apply(it, t, {t})

KlioAckInputMessage ==
  /\ pc = "running"
  /\ \E it \in Items("KlioAckInputMessage") : Apply(it, "ack", {})

KlioDrop ==
  /\ pc = "running"
  /\ \E it \in Items("KlioDrop") : Apply(it, "drop", {})

KlioUpdateAuditLog ==
  /\ pc = "running"
  /\ \E it \in Items("KlioUpdateAuditLog") : Apply(it, "out", {"out"})

KlioFilterPing ==
  /\ pc = "running"
  /\ \E it \in Items("KlioFilterPing"), t \in {"process", "pass_thru"} :
       Apply(it, t, {t})

KlioGcsCheckOutputExists ==
  /\ pc = "running"
  /\ \E it \in Items("KlioGcsCheckOutputExists"), t \in {"found", "not_found"} :
       Apply(it, t, {t})

ForceTag(c) == IF c.force THEN "process" ELSE "pass_thru"

KlioFilterForce ==
  /\ pc = "running"
  /\ \E it \in Items("KlioFilterForce") :
       Apply(it, ForceTag(config), {ForceTag(config)})

KlioGcsCheckInputExists ==
  /\ pc = "running"
  /\ \E it \in Items("KlioGcsCheckInputExists"), t \in {"found", "not_found"} :
       Apply(it, t, {t})

\* the business transform handles an element of one of its to_process
\* streams and emits at most one output for it
run_callable ==
  /\ pc = "running"
  /\ \E it \in Items("run_callable"), t \in {"out", "none"} :
       Apply(it, t, {t} \ {"none"})

\* the business transform takes an element from the raw pipeline object
\* (its source is skip-read, or no event input is declared)
run_callable_reads ==
  /\ pc = "running"
  /\ \E e \in Elements, t \in {"out", "none"} :
       /\ ~Entered(e)
       /\ EntryOf(e) = Pipeline
       /\ pending' = pending \cup
            UNION { Deliver(e, Out(NoPrefix, "run", x)) : x \in {t} \ {"none"} }
       /\ log' = [log EXCEPT ![e] = Append(@, Entry("run_callable", "run", t))]
  /\ UNCHANGED <<config, runtime_conf, pc, depth, graph, run_calls, engine_starts>>

KlioWrite ==
  /\ pc = "running"
  /\ \E it \in Items("KlioWrite") : Apply(it, "written", {})

Next ==
  \/ VerifyPackaging
  \/ setup_pipeline
  \/ pipeline_run
  \/ KlioRead
  \/ KlioTagMessageVersion
  \/ KlioV1CheckRecipients
  \/ KlioCheckRecipients
  \/ KlioAckInputMessage
  \/ KlioDrop
  \/ KlioUpdateAuditLog
  \/ KlioFilterPing
  \/ KlioGcsCheckOutputExists
  \/ KlioFilterForce
  \/ KlioGcsCheckInputExists
  \/ run_callable
  \/ run_callable_reads
  \/ KlioWrite

\* the assembled topology processing elements
Spec == Init /\ [][Next]_vars

\* The same job, for the properties of the gate chain of one source.
SpecGates == Init /\ [][Next]_vars

\* The same job, for the properties of its sources, its sink and the streams
\* between them.
SpecSources == Init /\ [][Next]_vars

\* run() up to the start of the engine, under every combination of runtime flags
NextRun ==
  \/ VerifyPackaging
  \/ setup_pipeline
  \/ pipeline_run

SpecRun == InitRun /\ [][NextRun]_vars


\* A stage application of the engine, whichever stage it is.
StageStep ==
  \/ KlioTagMessageVersion
  \/ KlioV1CheckRecipients
  \/ KlioCheckRecipients
  \/ KlioAckInputMessage
  \/ KlioDrop
  \/ KlioUpdateAuditLog
  \/ KlioFilterPing
  \/ KlioGcsCheckOutputExists
  \/ KlioFilterForce
  \/ KlioGcsCheckInputExists
  \/ run_callable
  \/ KlioWrite

\* The engine does not stop while a stage has an element to handle.  No
\* stage is promised a turn of its own, and no element is promised to arrive.
Fairness == WF_vars(StageStep)

LiveSpec == Init /\ [][Next]_vars /\ Fairness

\* ------------------------------------------------- what an element's log says
Has(e, kind) == \E i \in DOMAIN log[e] : log[e][i].kind = kind

HasTag(e, kind, tag) ==
  \E i \in DOMAIN log[e] : log[e][i].kind = kind /\ log[e][i].tag = tag

HasLabel(e, label) == \E i \in DOMAIN log[e] : log[e][i].label = label

Count(e, kind) == Cardinality({ i \in DOMAIN log[e] : log[e][i].kind = kind })

PendingOf(e, kind) == { it \in pending : it.e = e /\ it.kind = kind }

\* the element's journey is over: it was read and no stage has work left for it
Drained(e) == Entered(e) /\ \A it \in pending : it.e # e

RouterDropped(e) == HasTag(e, "KlioCheckRecipients", "drop")
RouterProcess(e) == HasTag(e, "KlioCheckRecipients", "process")

OutputFound(e) == HasTag(e, "KlioGcsCheckOutputExists", "found")
InputNotFound(e) == HasTag(e, "KlioGcsCheckInputExists", "not_found")
PassedThrough(e) ==
  HasTag(e, "KlioFilterPing", "pass_thru") \/ HasTag(e, "KlioFilterForce", "pass_thru")
Transformed(e) == Has(e, "run_callable")
Emitted(e) == HasTag(e, "run_callable", "out")
Swallowed(e) == HasTag(e, "run_callable", "none")
Acked(e) == Has(e, "KlioAckInputMessage")
Written(e) == Has(e, "KlioWrite")
Dropped(e) == Has(e, "KlioDrop")

\* executed or pending applications of the stages of a kind to an element
Handed(e, kind) == Count(e, kind) + Cardinality(PendingOf(e, kind))

\* a stage of one of the kinds was or is to be applied to the element
Touched(e, kinds) ==
  \/ \E i \in DOMAIN log[e] : log[e][i].kind \in kinds
  \/ \E it \in pending : it.e = e /\ it.kind \in kinds

\* the same for the stage wired under a label
HandedTo(e, label) ==
  Cardinality({ i \in DOMAIN log[e] : log[e][i].label = label })
    + Cardinality({ it \in pending : it.e = e /\ it.label = label })

\* The PCollections an element was emitted on, by its log.  The stages of
\* its source's chain carry the source's label prefix; the log does not
\* keep which of the two recipient checks handled the element.
EmittedOn(e) ==
  UNION { IF en.kind \in {"KlioAckInputMessage", "KlioDrop", "KlioWrite",
                          "_KlioTagMessageVersion"}
          THEN {}
          ELSE IF en.kind = "KlioCheckRecipients"
          THEN { Out(PfxOf(e), "Should Process v1 Message", en.tag),
                 Out(PfxOf(e), "Should Process v2 Message", en.tag) }
          ELSE IF en.kind = "run_callable"
          THEN IF en.tag = "out" THEN {out_pcol} ELSE {}
          ELSE { Out(PfxOf(e), en.label, en.tag) } : en \in Range(log[e]) }

\* one of the PCollections em is carried by the stream q
CarriedBy(em, q) ==
  /\ q \in DOMAIN graph.feeders
  /\ em \cap graph.feeders[q] # {}

\* the element is in the stream q
InStream(e, q) == CarriedBy(EmittedOn(e), q)

\* ------------------------------------------------------------------ claims

\* C1: under the manual-ack runner no input message is acknowledged more
\* than once: the three ack stages (router drop, input not found, final
\* output) together receive an element at most once, executed or pending.
C1_AtMostOneAck ==
  IsDirectGKE(config) =>
    \A e \in Elements :
      Count(e, "KlioAckInputMessage")
        + Cardinality(PendingOf(e, "KlioAckInputMessage")) <= 1

\* an element of a manual-ack job that passed the input-existence gate and
\* was emitted by the transform: acknowledged once, its journey over
C1_Witness ==
  /\ IsDirectGKE(config)
  /\ \E e \in Elements :
       /\ HasTag(e, "KlioGcsCheckInputExists", "found")
       /\ Drained(e) /\ Emitted(e) /\ Count(e, "KlioAckInputMessage") = 1

\* C2: under the manual-ack runner every element that was dropped by the
\* router, dropped by the input-existence gate, routed to pass-through,
\* emitted by the business transform or written is eventually acknowledged.
C2_EventuallyAcked ==
  \A e \in Elements :
    ( /\ IsDirectGKE(config)
      /\ \/ RouterDropped(e)
         \/ InputNotFound(e)
         \/ PassedThrough(e)
         \/ Emitted(e)
         \/ Written(e) )
    ~> Acked(e)

\* an element the input-existence gate dropped, acknowledged
C2_Witness ==
  /\ IsDirectGKE(config)
  /\ \E e \in Elements : InputNotFound(e) /\ Acked(e) /\ Drained(e)

\* C3: write-then-ack: an element of the sink path whose write is wired is
\* acknowledged by the final ack stage only once it has been written.
C3_WriteThenAck ==
  \A e \in Elements :
    (WriteWired(config) /\ HasLabel(e, "Ack Input Messages")) => Written(e)

\* C4 as claimed, for every job configuration: an element is never both
\* written and dropped, and once its journey is over (the transform, if it
\* got the element, having emitted it) it is written, or dropped and (under
\* the manual-ack runner) acknowledged.
C4_ExactlyOneTerminal ==
  \A e \in Elements :
    /\ ~(Written(e) /\ Dropped(e))
    /\ (Drained(e) /\ ~Swallowed(e)) =>
         \/ Written(e)
         \/ Dropped(e) /\ (IsDirectGKE(config) => Acked(e))

\* C4 amended: the same for the job configurations that wire the sink write
\* (an event output is declared and its skip-write is unset).
C4_ExactlyOneTerminalWhenWriting ==
  \A e \in Elements :
    /\ ~(Written(e) /\ Dropped(e))
    /\ (Drained(e) /\ ~Swallowed(e) /\ WriteWired(config)) =>
         \/ Written(e) /\ Count(e, "KlioWrite") = 1
         \/ Dropped(e) /\ Count(e, "KlioDrop") = 1 /\ (IsDirectGKE(config) => Acked(e))

\* a pass-through element written, and in another run an element dropped and acked
C4_Witness ==
  \E e \in Elements :
    /\ Drained(e) /\ WriteWired(config) /\ IsDirectGKE(config)
    /\ PassedThrough(e) /\ Written(e) /\ ~Dropped(e)

\* C5: an element whose output exists, with force unset and the output gate
\* wired, is never handed to the business transform; the force gate sends it
\* to pass-through and from there it is handed to the sink writer.
C5_ExistingOutputPassesThrough ==
  \A e \in Elements :
    (OutputFound(e) /\ ~config.force) =>
      /\ ~Transformed(e)
      /\ PendingOf(e, "run_callable") = {}
      /\ Has(e, "KlioFilterForce") =>
           /\ HasTag(e, "KlioFilterForce", "pass_thru")
           /\ WriteWired(config) => (Written(e) \/ PendingOf(e, "KlioWrite") # {})

\* an element with existing output written without the transform seeing it
C5_Witness ==
  \E e \in Elements :
    /\ OutputFound(e) /\ ~config.force /\ Drained(e)
    /\ Written(e) /\ ~Transformed(e)

\* C6 as claimed: an element whose output exists, with force set, is handed
\* to the business transform and is not in the pass-through stream.
C6_ForcedIsTransformed ==
  \A e \in Elements :
    (OutputFound(e) /\ config.force /\ Drained(e)) =>
      Transformed(e) /\ ~PassedThrough(e)

\* C6 amended: such an element never enters the pass-through stream; it goes
\* on to the input-existence stage and is handed to the business transform
\* unless the input-existence gate is wired and finds its input absent.
C6_ForcedIsTransformedIfInputExists ==
  \A e \in Elements :
    (OutputFound(e) /\ config.force) =>
      /\ ~PassedThrough(e)
      /\ Drained(e) => (Transformed(e) <=> ~InputNotFound(e))
      /\ Has(e, "KlioFilterForce") => HasTag(e, "KlioFilterForce", "process")

\* an element with existing output reprocessed under force
C6_Witness ==
  \E e \in Elements :
    OutputFound(e) /\ config.force /\ Drained(e) /\ Transformed(e)

\* C7: under the manual-ack runner an element whose input is absent is
\* acknowledged before it is dropped.
C7_AckBeforeDrop ==
  IsDirectGKE(config) =>
    \A e \in Elements :
      HasLabel(e, "Drop Not Found Data") =>
        HasLabel(e, "Ack Input Message from No Data Input Found")

\* the stages downstream of the recipient router's process branch
DownstreamKinds ==
  { "KlioUpdateAuditLog", "KlioFilterPing", "KlioGcsCheckOutputExists",
    "KlioFilterForce", "KlioGcsCheckInputExists", "run_callable", "KlioWrite" }

\* C8: an element the recipient router sent to its drop branch gets no audit
\* record and reaches none of the later stages; the audit-log stage is
\* applied (once) to exactly the elements of the router's process branch.
C8_DroppedNeverProcessed ==
  \A e \in Elements :
    /\ RouterDropped(e) =>
         /\ \A i \in DOMAIN log[e] : log[e][i].kind \notin DownstreamKinds
         /\ \A it \in pending : it.e = e => it.kind \notin DownstreamKinds
    /\ (Has(e, "KlioUpdateAuditLog") \/ PendingOf(e, "KlioUpdateAuditLog") # {})
         <=> RouterProcess(e)
    /\ Count(e, "KlioUpdateAuditLog") + Cardinality(PendingOf(e, "KlioUpdateAuditLog")) <= 1

\* an element dropped by the router, its journey over
C8_Witness ==
  \E e \in Elements : RouterDropped(e) /\ Dropped(e) /\ Drained(e)

\* more than one event output, data output or data input is declared
MultiDeclared(c) ==
  Len(c.events_outputs) > 1 \/ _has_multi_data_outputs(c) \/ _has_multi_data_inputs(c)

\* C9: a job that declares more than one sink or more than one data input
\* never gets as far as pipeline.run().
C9_MultiDeclaredIsFatal ==
  MultiDeclared(config) => (engine_starts = 0 /\ pc \notin {"assembled", "running"})

\* C10: when the engine has been started successfully the run callable has
\* been invoked exactly once, the retry without update included.
C10_RunCallableOnce ==
  pc = "running" => run_calls = 1

C13_AckOnlyOnManualAckRunner ==
  ( /\ pc \in {"assembled", "running"}
    /\ _set_standard_options(config, runtime_conf) # GKE_DIRECT_RUNNER ) =>
    \A s \in graph.stages : s.kind # "KlioAckInputMessage"


\* the stages of an element's journey up to the business transform, in the
\* order spec.md gives them
StageOrder ==
  << "KlioCheckRecipients", "KlioUpdateAuditLog", "KlioGcsCheckOutputExists",
     "KlioFilterForce", "KlioGcsCheckInputExists", "run_callable" >>

OrderedKinds == Range(StageOrder)

PosOf == [kind \in OrderedKinds |-> CHOOSE n \in DOMAIN StageOrder : StageOrder[n] = kind]

\* C14: within an element's journey the stages are applied in the fixed
\* order router, audit log, output gate, force gate, input gate, business
\* transform (a stage still pending comes after every stage applied); the
\* force gate sees only elements the output gate found, and the input gate
\* sees an element only after the output gate when both gates are wired.
C14_StageOrderFixed ==
  \A e \in Elements :
    /\ \A j \in DOMAIN log[e] :
         log[e][j].kind \in OrderedKinds =>
           \A i \in 1 .. j - 1 :
             log[e][i].kind \in OrderedKinds =>
               PosOf[log[e][i].kind] < PosOf[log[e][j].kind]
    /\ \A it \in pending :
         (it.e = e /\ it.kind \in OrderedKinds) =>
           /\ \A i \in DOMAIN log[e] :
                log[e][i].kind \in OrderedKinds =>
                  PosOf[log[e][i].kind] < PosOf[it.kind]
           /\ it.kind = "KlioFilterForce" => OutputFound(e)
           /\ ( /\ it.kind = "KlioGcsCheckInputExists"
                /\ \E s \in graph.stages : s.kind = "KlioGcsCheckOutputExists" ) =>
                Has(e, "KlioGcsCheckOutputExists")

\* an element that went through all six stages
C14_Witness ==
  \E e \in Elements :
    \A n \in DOMAIN StageOrder : Has(e, StageOrder[n])

\* C15: an element the input-existence gate found no input for is never
\* handed to the business transform or to the sink writer, whatever the
\* force flag and the output check said.
C15_AbsentInputNeverProcessed ==
  \A e \in Elements :
    InputNotFound(e) =>
      /\ ~Touched(e, {"run_callable", "KlioWrite"})
      /\ ~InStream(e, EntryOf(e))

\* an element with existing output, reprocessed under force, whose input is
\* absent: dropped
C15_Witness ==
  \E e \in Elements :
    /\ InputNotFound(e) /\ OutputFound(e) /\ config.force
    /\ Drained(e) /\ Dropped(e)

\* C16: when the sink declares skip-existence-check, or no data output is
\* declared, the assembled topology has neither an output gate nor a force
\* gate and neither is ever applied; an element
\* the gate would have examined is handed straight to the input-existence
\* stage (to the transform when that gate is not wired either), and only the
\* ping filter contributes to the pass-through stream.
C16_OutputGateBypass ==
  (Len(config.data_outputs) = 0 \/ config.data_outputs[1]) =>
    /\ pc = "assembled" =>
         \A s \in graph.stages :
           s.kind \notin {"KlioGcsCheckOutputExists", "KlioFilterForce"}
    /\ \A e \in Elements :
         Entered(e) =>
         /\ ~Touched(e, {"KlioGcsCheckOutputExists", "KlioFilterForce"})
         /\ InStream(e, graph.to_pass_thru) => HasTag(e, "KlioFilterPing", "pass_thru")
         /\ ( IF Len(config.data_inputs) > 0
              THEN HasTag(e, "KlioFilterPing", "process")
              ELSE Has(e, "KlioUpdateAuditLog") ) =>
              IF Len(config.data_inputs) > 0 /\ ~config.data_inputs[1]
              THEN Handed(e, "KlioGcsCheckInputExists") = 1
              ELSE Handed(e, "run_callable") = 1

\* the sink declares skip-existence-check: an element went from the ping
\* filter to the input-existence gate and on to the transform
C16_Witness ==
  /\ Len(config.data_outputs) > 0 /\ config.data_outputs[1]
  /\ \E e \in Elements :
       /\ HasTag(e, "KlioFilterPing", "process")
       /\ HasTag(e, "KlioGcsCheckInputExists", "found")
       /\ Transformed(e)

\* C17: when the source declares skip-existence-check, or no data input is
\* declared, the assembled topology has no input-existence gate and no
\* input-not-found ack or drop, the gate is never applied, only the
\* recipient router drops elements, and with the output gate
\* wired the transform is handed exactly the elements the output gate did
\* not find or the force gate sent to process.
C17_InputGateBypass ==
  (Len(config.data_inputs) = 0 \/ config.data_inputs[1]) =>
    /\ pc = "assembled" =>
         \A s \in graph.stages :
           /\ s.kind # "KlioGcsCheckInputExists"
           /\ s.label \notin {"Drop Not Found Data",
                               "Ack Input Message from No Data Input Found"}
    /\ \A e \in Elements :
         Entered(e) =>
         /\ ~Touched(e, {"KlioGcsCheckInputExists"})
         /\ Touched(e, {"KlioDrop"}) => RouterDropped(e)
         /\ (Len(config.data_outputs) > 0 /\ ~config.data_outputs[1] /\ EntryOf(e) # Pipeline) =>
              Handed(e, "run_callable") =
                IF \/ HasTag(e, "KlioGcsCheckOutputExists", "not_found")
                   \/ HasTag(e, "KlioFilterForce", "process")
                THEN 1 ELSE 0

\* the source declares skip-existence-check: an element whose output exists
\* is reprocessed under force without an input check
C17_Witness ==
  /\ Len(config.data_inputs) > 0 /\ config.data_inputs[1]
  /\ \E e \in Elements :
       HasTag(e, "KlioFilterForce", "process") /\ Transformed(e) /\ Drained(e)

\* the stages of the gate chain
ChainKinds ==
  { "KlioUpdateAuditLog", "KlioFilterPing", "KlioGcsCheckOutputExists",
    "KlioFilterForce", "KlioGcsCheckInputExists" }

\* in how many of the three streams the gate chain produces the element is:
\* to-process, pass-through, input-not-found
InStreams(e) ==
  LET em == EmittedOn(e)
  IN  (IF CarriedBy(em, EntryOf(e)) THEN 1 ELSE 0)
      + (IF CarriedBy(em, graph.to_pass_thru) THEN 1 ELSE 0)
      + (IF InputNotFound(e) THEN 1 ELSE 0)

\* C18: an element the recipient router sent to its process branch is never
\* in two of the to-process, pass-through and input-not-found streams, and
\* once the gate chain has no stage left to apply to it, it is in exactly
\* one of them.
C18_GateChainConserves ==
  \A e \in Elements :
    RouterProcess(e) =>
      LET n == InStreams(e)
      IN  /\ n <= 1
          /\ ~(\E it \in pending : it.e = e /\ it.kind \in ChainKinds) => n = 1

\* an element whose output exists, sent to the pass-through stream by the
\* force gate, its journey over
C18_Witness ==
  \E e \in Elements :
    /\ RouterProcess(e) /\ Drained(e)
    /\ InStream(e, graph.to_pass_thru)
    /\ HasTag(e, "KlioFilterForce", "pass_thru")

\* the labels of the stages wired without a label prefix
TopLabels ==
  { "run", "Flatten to Ack Input Messages", "Ack Input Messages",
    "Flatten to Output", "Write Event Output", "Merge multi-input pass-thrus" }

\* C19: for an event input that declares skip-read the assembled topology
\* has no stage of the per-source chain, the entry handed to the business transform for
\* it is the raw pipeline object, it contributes no pass-through stream, and
\* its elements go through no stage before the transform.
C19_SkipReadBypassesChain ==
  \A i \in 1 .. NumInputs :
    config.events_inputs[i] =>
      /\ pc = "assembled" =>
           /\ graph.to_process[i] = Pipeline
           /\ \A s \in graph.stages :
                /\ s.pfx = (IF NumInputs > 1 THEN i ELSE NoPrefix) => s.label \in TopLabels
                /\ \A p \in s.inp : p \notin {None, Pipeline} =>
                     (p[1] = (IF NumInputs > 1 THEN i ELSE NoPrefix) => p[2] \in TopLabels)
           /\ NumInputs = 1 => graph.to_pass_thru = None
      /\ \A e \in Elements :
           SourceOf(e) = i =>
             \A n \in DOMAIN log[e] :
               log[e][n].kind \in {"run_callable", "KlioAckInputMessage", "KlioWrite"}

\* an element of a skip-read input taken by the transform from the pipeline
C19_Witness ==
  /\ NumInputs > 0
  /\ \E e \in Elements :
       /\ config.events_inputs[SourceOf(e)]
       /\ Emitted(e) /\ Drained(e)

\* C20: with skip-write set on the first event output, or no event output,
\* the assembled topology has no write stage and nothing is written, while the transform is
\* invoked and (manual-ack runner) its output and the pass-through elements
\* are acknowledged; otherwise the writer is handed exactly the transform's
\* output and the pass-through elements, each once.
C20_SkipWriteOnlyOmitsWrite ==
  /\ pc = "assembled" =>
       /\ run_calls = 1
       /\ \E s \in graph.stages : s.kind = "run_callable"
       /\ (Len(config.events_outputs) = 0 \/ config.events_outputs[1]) =>
            \A s \in graph.stages : s.kind # "KlioWrite"
  /\ \A e \in Elements :
       Entered(e) =>
         LET out == Emitted(e) \/ PassedThrough(e)
         IN  /\ IsDirectGKE(config) =>
                  HandedTo(e, "Ack Input Messages") = IF out THEN 1 ELSE 0
             /\ Handed(e, "KlioWrite") =
                  IF /\ Len(config.events_outputs) > 0
                     /\ ~config.events_outputs[1]
                     /\ out
                  THEN 1 ELSE 0

\* skip-write is set: an emitted element acknowledged and not written
C20_Witness ==
  /\ Len(config.events_outputs) > 0 /\ config.events_outputs[1]
  /\ IsDirectGKE(config)
  /\ \E e \in Elements : Emitted(e) /\ Acked(e) /\ Drained(e) /\ ~Written(e)

C22_AtMostOneRetry ==
  /\ depth <= 2
  /\ engine_starts <= 2
  /\ engine_starts \in {depth - 1, depth}
  /\ depth > 1 => ~runtime_conf.update
  /\ engine_starts = depth => pc \in {"running", "exit"}

\* the re-run's pipeline.run() raised a ValueError and run() exited
C22_Witness ==
  depth = 2 /\ engine_starts = 2 /\ pc = "exit"

\* C23: every element in the pass-through stream that is merged with the
\* business transform's output was diverted there by the output-existence
\* gate and the force gate: its output exists and force is unset.
C23_PassThruOnlyForExistingOutput ==
  \A e \in Elements :
    InStream(e, graph.to_pass_thru) =>
      /\ OutputFound(e)
      /\ ~config.force
      /\ HasTag(e, "KlioFilterForce", "pass_thru")

=============================================================================
